---- MODULE Spec2Model ----
(***************************************************************************)
(* A model of utoipa-validate: the runtime crate (paths, errors, the       *)
(* primitive and wrapping validators, the Validatable entry points) and    *)
(* the derive macro of utoipa-validate-gen, whose generated checks are     *)
(* kept as data and executed by Validator_validate.                        *)
(*                                                                         *)
(* Text is a sequence of characters, each character a one-element token    *)
(* ("a", ".", "[", ...); "U+00E9" stands for the single character e-acute, *)
(* which takes two bytes in UTF-8.  A panic of the Rust code is the        *)
(* outcome field `panicked`.                                               *)
(***************************************************************************)
EXTENDS Integers, Sequences, FiniteSets, TLC

(* ------------------------------ bounds -------------------------------- *)

\* longest text value, in characters
MaxStrLen == 2

\* longest Vec value
MaxVecLen == 2

\* validate_ex is called on an accumulator holding at most this many errors
MaxPrior == 1

\* deepest path that is built and rendered on its own
MaxDepth == 3

\* threads that run validation passes side by side
NumThreads == 2

(* ------------------------------- text --------------------------------- *)

DigitChars == <<"0", "1", "2", "3", "4", "5", "6", "7", "8", "9">>

RECURSIVE nat_to_string(_)
nat_to_string(n) ==
    IF n < 10 THEN <<DigitChars[n + 1]>>
    ELSE nat_to_string(n \div 10) \o <<DigitChars[(n % 10) + 1]>>

\* Display of an integer (i8, u8, usize): decimal digits, "-" for negatives
to_string(n) ==
    IF n < 0 THEN <<"-">> \o nat_to_string(0 - n) ELSE nat_to_string(n)

\* characters that take two bytes in UTF-8
TwoByteChars == {"U+00E9"}

Utf8Len(c) == IF c \in TwoByteChars THEN 2 ELSE 1

\* String::len(): the length of the text in bytes
RECURSIVE String_len(_)
String_len(s) ==
    IF s = <<>> THEN 0 ELSE Utf8Len(Head(s)) + String_len(Tail(s))

\* the number of characters of the text (s.chars().count())
CharCount(s) == Len(s)

(* --------------------------- ValidationPath --------------------------- *)

Root == [seg |-> "Root"]

Field(parent, name) == [seg |-> "Field", parent |-> parent, name |-> name]

Item(parent, index) == [seg |-> "Item", parent |-> parent, index |-> index]

RECURSIVE ValidationPath_fmt(_)

\* mutant: a field is joined with "." to every parent, Root included
ValidationPath_fmt_always_dot(path) ==
    CASE path.seg = "Root" -> <<>>
      [] path.seg = "Field" -> ValidationPath_fmt(path.parent) \o <<".">> \o path.name
      [] path.seg = "Item" ->
            ValidationPath_fmt(path.parent) \o <<"[">> \o to_string(path.index) \o <<"]">>

ValidationPath_fmt(path) ==
    CASE path.seg = "Root" -> <<>>
      [] path.seg = "Field" /\ path.parent.seg = "Root" -> path.name
      [] path.seg = "Field" /\ path.parent.seg # "Root" ->
            ValidationPath_fmt(path.parent) \o <<".">> \o path.name
      [] path.seg = "Item" /\ path.parent.seg = "Root" ->
            <<"[">> \o to_string(path.index) \o <<"]">>
      [] path.seg = "Item" /\ path.parent.seg # "Root" ->
            ValidationPath_fmt(path.parent) \o <<"[">> \o to_string(path.index) \o <<"]">>

(* --------------------------- ValidationError -------------------------- *)

ValidationError(category, path, actual, expected) ==
    [category |-> category, path |-> path, actual |-> actual, expected |-> expected]

\* The state of one validation pass: the accumulator and whether the pass
\* has panicked (after a panic nothing more runs).
NoErrors == [errors |-> <<>>, panicked |-> FALSE]

\* mutant: an error equal to one already in the list is not added again
push_unique(out, error) ==
    IF \E k \in 1..Len(out.errors) : out.errors[k] = error THEN out
    ELSE [out EXCEPT !.errors = Append(out.errors, error)]

push(out, error) == [out EXCEPT !.errors = Append(out.errors, error)]

panic(out) == [out EXCEPT !.panicked = TRUE]

(* ------------------------- integer arithmetic ------------------------- *)

IsSigned(ty) == ty = "i8"

IntMin(ty) == IF ty = "i8" THEN -128 ELSE 0

Abs(n) == IF n < 0 THEN 0 - n ELSE n

\* `a % b` of Rust's integer types panics for b = 0 and for MIN % -1
RemPanics(ty, a, b) == b = 0 \/ (IsSigned(ty) /\ a = IntMin(ty) /\ b = -1)

\* the truncated remainder: it has the sign of the dividend
Rem(a, b) == IF a < 0 THEN 0 - (Abs(a) % Abs(b)) ELSE a % Abs(b)

(* -------------------------------- regex ------------------------------- *)

\* "^[0-9a-f]+$"
PatHex == <<"^", "[", "0", "-", "9", "a", "-", "f", "]", "+", "$">>

\* "a": matches any text that holds an "a"
PatA == <<"a">>

\* "(": an unclosed group, no regular expression
PatBad == <<"(">>

HexChars == {"0", "1", "2", "3", "4", "5", "6", "7", "8", "9", "a", "b", "c", "d", "e", "f"}

\* regex::Regex::new(src).is_ok()
Regex_new_ok(src) == src \in {PatHex, PatA}

\* Regex::is_match: a search anywhere in the text
Regex_is_match(src, s) ==
    CASE src = PatHex -> Len(s) > 0 /\ \A i \in 1..Len(s) : s[i] \in HexChars
      [] src = PatA -> \E i \in 1..Len(s) : s[i] = "a"
      [] OTHER -> FALSE

(* ------------------------- primitive validators ----------------------- *)
(* A validator is a record; `kind` names its type.  validate(self, path,   *)
(* value, out) returns the pass `out` with what the validator appended.    *)

ExclusiveMaximumValidator_validate(self, path, value, out) ==
    IF value >= self.exclusive_maximum
    THEN push(out, ValidationError("ExclusiveMaximum", ValidationPath_fmt(path),
                                   to_string(value), to_string(self.exclusive_maximum)))
    ELSE out

ExclusiveMinimumValidator_validate(self, path, value, out) ==
    IF value <= self.exclusive_minimum
    THEN push(out, ValidationError("ExclusiveMinimum", ValidationPath_fmt(path),
                                   to_string(value), to_string(self.exclusive_minimum)))
    ELSE out

MaximumValidator_validate(self, path, value, out) ==
    IF value > self.maximum
    THEN push(out, ValidationError("Maximum", ValidationPath_fmt(path),
                                   to_string(value), to_string(self.maximum)))
    ELSE out

\* mutant: the limit itself is rejected
MinimumValidator_validate_le(self, path, value, out) ==
    IF value <= self.minimum
    THEN push(out, ValidationError("Minimum", ValidationPath_fmt(path),
                                   to_string(value), to_string(self.minimum)))
    ELSE out

MinimumValidator_validate(self, path, value, out) ==
    IF value < self.minimum
    THEN push(out, ValidationError("Minimum", ValidationPath_fmt(path),
                                   to_string(value), to_string(self.minimum)))
    ELSE out

MaxLengthValidator_validate(self, path, value, out) ==
    IF String_len(value) > self.max_length
    THEN push(out, ValidationError("MaxLength", ValidationPath_fmt(path),
                                   to_string(String_len(value)), to_string(self.max_length)))
    ELSE out

MinLengthValidator_validate(self, path, value, out) ==
    IF String_len(value) < self.min_length
    THEN push(out, ValidationError("MinLength", ValidationPath_fmt(path),
                                   to_string(String_len(value)), to_string(self.min_length)))
    ELSE out

PatternValidator_validate(self, path, value, out) ==
    IF ~Regex_is_match(self.pattern, value)
    THEN push(out, ValidationError("Pattern", ValidationPath_fmt(path),
                                   value, self.pattern))
    ELSE out

MaxItemsValidator_validate(self, path, value, out) ==
    IF Len(value) > self.max_items
    THEN push(out, ValidationError("MaxItems", ValidationPath_fmt(path),
                                   to_string(Len(value)), to_string(self.max_items)))
    ELSE out

MinItemsValidator_validate(self, path, value, out) ==
    IF Len(value) < self.min_items
    THEN push(out, ValidationError("MinItems", ValidationPath_fmt(path),
                                   to_string(Len(value)), to_string(self.min_items)))
    ELSE out

\* `*value % self.multiple_of != T::default()`; the remainder panics first
MultipleOfValidator_validate(self, path, value, out) ==
    IF RemPanics(self.ty, value, self.multiple_of) THEN panic(out)
    ELSE IF Rem(value, self.multiple_of) # 0
    THEN push(out, ValidationError("MultipleOf", ValidationPath_fmt(path),
                                   to_string(value), to_string(self.multiple_of)))
    ELSE out

PrimitiveKinds ==
    {"ExclusiveMaximum", "ExclusiveMinimum", "Maximum", "Minimum", "MaxLength",
     "MinLength", "Pattern", "MaxItems", "MinItems", "MultipleOf"}

Primitive_validate(self, path, value, out) ==
    CASE self.kind = "ExclusiveMaximum" -> ExclusiveMaximumValidator_validate(self, path, value, out)
      [] self.kind = "ExclusiveMinimum" -> ExclusiveMinimumValidator_validate(self, path, value, out)
      [] self.kind = "Maximum" -> MaximumValidator_validate(self, path, value, out)
      [] self.kind = "Minimum" -> MinimumValidator_validate(self, path, value, out)
      [] self.kind = "MaxLength" -> MaxLengthValidator_validate(self, path, value, out)
      [] self.kind = "MinLength" -> MinLengthValidator_validate(self, path, value, out)
      [] self.kind = "Pattern" -> PatternValidator_validate(self, path, value, out)
      [] self.kind = "MaxItems" -> MaxItemsValidator_validate(self, path, value, out)
      [] self.kind = "MinItems" -> MinItemsValidator_validate(self, path, value, out)
      [] self.kind = "MultipleOf" -> MultipleOfValidator_validate(self, path, value, out)

(* ------------------------ capability resolution ----------------------- *)
(* A type is a record; `ident` is the last segment of its path and `arg`   *)
(* the type argument of Option<T> and Vec<T>.                              *)

TyI8 == [ident |-> "i8"]

TyU8 == [ident |-> "u8"]

TyString == [ident |-> "String"]

TyOption(t) == [ident |-> "Option", arg |-> t]

TyVec(t) == [ident |-> "Vec", arg |-> t]

TyNamed(name) == [ident |-> name]

\* the types of validatable!(...)
ScalarIdents ==
    {"bool", "i8", "i16", "i32", "i64", "isize", "u8", "u16", "u32", "u64",
     "usize", "f32", "f64", "char", "String"}

AlwaysValidValidator == [kind |-> "AlwaysValid"]

OptionValidator_new(inner) == [kind |-> "Option", inner |-> inner]

VecValidator_default(inner) == [kind |-> "Vec", inner |-> inner]

\* <T as Validatable>::DefaultValidator::default()
RECURSIVE DefaultValidator(_)

\* mutant: a wrapper does not take up the default of the type it wraps
DefaultValidator_shallow(t) ==
    CASE t.ident \in ScalarIdents -> AlwaysValidValidator
      [] t.ident = "Option" -> OptionValidator_new(AlwaysValidValidator)
      [] t.ident = "Vec" -> VecValidator_default(AlwaysValidValidator)
      [] OTHER -> [kind |-> "Derived", name |-> t.ident]

DefaultValidator(t) ==
    CASE t.ident \in ScalarIdents -> AlwaysValidValidator
      [] t.ident = "Option" -> OptionValidator_new(DefaultValidator(t.arg))
      [] t.ident = "Vec" -> VecValidator_default(DefaultValidator(t.arg))
      [] OTHER -> [kind |-> "Derived", name |-> t.ident]

(* --------------------------- the derive macro ------------------------- *)
(* A declaration (DeriveInput) is a record: ident, data ("Struct", "Enum"  *)
(* or "Union"), and for a struct `fields` = [style, list], for an enum     *)
(* `variants`, each [ident, fields].  A field is [named, ident, ty, attrs];*)
(* an attribute is [path, parses, args] (parses: whether its arguments     *)
(* parse as a comma-separated Meta list); a Meta is [form, path, value].   *)
(* The generated code is data: one FieldCode per field, holding the        *)
(* validator expressions that the generated function evaluates at run time.*)

RECURSIVE Flatten(_)
Flatten(seqs) == IF seqs = <<>> THEN <<>> ELSE Head(seqs) \o Flatten(Tail(seqs))

is_option(t) == t.ident = "Option"

generate_field_name(index) == <<"_">> \o nat_to_string(index)

\* mutant: a pair of an unknown name is wired to the minimum check
validator_expr_unknown_checked(field_type, meta) ==
    IF meta.form # "NameValue" THEN <<>>
    ELSE CASE meta.path = "exclusive_maximum" ->
                <<[kind |-> "ExclusiveMaximum", exclusive_maximum |-> meta.value]>>
           [] meta.path = "exclusive_minimum" ->
                <<[kind |-> "ExclusiveMinimum", exclusive_minimum |-> meta.value]>>
           [] meta.path = "maximum" -> <<[kind |-> "Maximum", maximum |-> meta.value]>>
           [] meta.path = "max_items" -> <<[kind |-> "MaxItems", max_items |-> meta.value]>>
           [] meta.path = "min_items" -> <<[kind |-> "MinItems", min_items |-> meta.value]>>
           [] meta.path = "max_length" -> <<[kind |-> "MaxLength", max_length |-> meta.value]>>
           [] meta.path = "min_length" -> <<[kind |-> "MinLength", min_length |-> meta.value]>>
           [] meta.path = "multiple_of" ->
                <<[kind |-> "MultipleOf", multiple_of |-> meta.value,
                   ty |-> IF is_option(field_type) THEN field_type.arg.ident
                          ELSE field_type.ident]>>
           [] meta.path = "pattern" -> <<[kind |-> "Pattern", regex_src |-> meta.value]>>
           [] OTHER -> <<[kind |-> "Minimum", minimum |-> meta.value]>>

\* the expression quoted for one Meta; <<>> for `_ => None`
validator_expr(field_type, meta) ==
    IF meta.form # "NameValue" THEN <<>>
    ELSE CASE meta.path = "exclusive_maximum" ->
                <<[kind |-> "ExclusiveMaximum", exclusive_maximum |-> meta.value]>>
           [] meta.path = "exclusive_minimum" ->
                <<[kind |-> "ExclusiveMinimum", exclusive_minimum |-> meta.value]>>
           [] meta.path = "maximum" -> <<[kind |-> "Maximum", maximum |-> meta.value]>>
           [] meta.path = "minimum" -> <<[kind |-> "Minimum", minimum |-> meta.value]>>
           [] meta.path = "max_items" -> <<[kind |-> "MaxItems", max_items |-> meta.value]>>
           [] meta.path = "min_items" -> <<[kind |-> "MinItems", min_items |-> meta.value]>>
           [] meta.path = "max_length" -> <<[kind |-> "MaxLength", max_length |-> meta.value]>>
           [] meta.path = "min_length" -> <<[kind |-> "MinLength", min_length |-> meta.value]>>
           [] meta.path = "multiple_of" ->
                <<[kind |-> "MultipleOf", multiple_of |-> meta.value,
                   ty |-> IF is_option(field_type) THEN field_type.arg.ident
                          ELSE field_type.ident]>>
           [] meta.path = "pattern" -> <<[kind |-> "Pattern", regex_src |-> meta.value]>>
           [] OTHER -> <<>>

\* the checks of one schema/param attribute, in the order of its Metas
create_checks_for_schema_attribute(field_type, is_opt, attribute) ==
    Flatten([i \in 1..Len(attribute.args) |->
        LET e == validator_expr(field_type, attribute.args[i])
        IN  IF e = <<>> THEN <<>>
            ELSE <<[validator_expr |-> e[1], is_option |-> is_opt]>>])

\* parse_args_with(..).unwrap() panics when the arguments do not parse
attribute_panics(attribute) ==
    attribute.path \in {"schema", "param"} /\ ~attribute.parses

create_checks_for_field(field, field_expr, field_name_str) ==
    [expr |-> field_expr,
     name |-> field_name_str,
     ty |-> field.ty,
     checks |-> Flatten([i \in 1..Len(field.attrs) |->
        IF field.attrs[i].path \in {"schema", "param"}
        THEN create_checks_for_schema_attribute(field.ty, is_option(field.ty), field.attrs[i])
        ELSE <<>>])]

field_panics(field) == \E i \in 1..Len(field.attrs) : attribute_panics(field.attrs[i])

\* mutant: the fields are taken in reverse order
create_checks_struct_reversed(fields) ==
    LET n == Len(fields.list)
    IN  CASE fields.style = "Named" ->
                [i \in 1..n |->
                    create_checks_for_field(fields.list[n + 1 - i], n + 1 - i,
                                            fields.list[n + 1 - i].ident)]
          [] fields.style = "Unnamed" ->
                [i \in 1..n |->
                    create_checks_for_field(fields.list[n + 1 - i], n + 1 - i,
                                            nat_to_string(n - i))]
          [] fields.style = "Unit" -> <<>>

\* mutant: positional record fields are named like those of a variant
create_checks_struct_underscore(fields) ==
    CASE fields.style = "Named" ->
            [i \in 1..Len(fields.list) |->
                create_checks_for_field(fields.list[i], i, fields.list[i].ident)]
      [] fields.style = "Unnamed" ->
            [i \in 1..Len(fields.list) |->
                create_checks_for_field(fields.list[i], i, generate_field_name(i - 1))]
      [] fields.style = "Unit" -> <<>>

\* the index of a field is zero-based; position i of the list is index i - 1
create_checks_struct(fields) ==
    CASE fields.style = "Named" ->
            [i \in 1..Len(fields.list) |->
                create_checks_for_field(fields.list[i], i, fields.list[i].ident)]
      [] fields.style = "Unnamed" ->
            [i \in 1..Len(fields.list) |->
                create_checks_for_field(fields.list[i], i, nat_to_string(i - 1))]
      [] fields.style = "Unit" -> <<>>

\* mutant: the field name is not qualified by the variant
create_checks_variant_unqualified(variant) ==
    [variant |-> variant.ident,
     fields |-> [i \in 1..Len(variant.fields.list) |->
        LET field == variant.fields.list[i]
            field_name == IF field.named THEN field.ident ELSE generate_field_name(i - 1)
        IN  create_checks_for_field(field, i, field_name)]]

create_checks_variant(variant) ==
    [variant |-> variant.ident,
     fields |-> [i \in 1..Len(variant.fields.list) |->
        LET field == variant.fields.list[i]
            field_name == IF field.named THEN field.ident ELSE generate_field_name(i - 1)
        IN  create_checks_for_field(field, i, variant.ident \o <<".">> \o field_name)]]

create_checks(data) ==
    CASE data.data = "Struct" -> [data |-> "Struct", fields |-> create_checks_struct(data.fields)]
      [] data.data = "Enum" ->
            [data |-> "Enum",
             arms |-> [i \in 1..Len(data.variants) |-> create_checks_variant(data.variants[i])]]

create_checks_panics(data) ==
    CASE data.data = "Struct" ->
            \E i \in 1..Len(data.fields.list) : field_panics(data.fields.list[i])
      [] data.data = "Enum" ->
            \E i \in 1..Len(data.variants) :
                \E j \in 1..Len(data.variants[i].fields.list) :
                    field_panics(data.variants[i].fields.list[j])
      [] data.data = "Union" -> TRUE

NotDerived == [status |-> "pending"]

derive_validatable(input) ==
    IF create_checks_panics(input) THEN [status |-> "aborted"]
    ELSE [status |-> "derived", checks |-> create_checks(input)]

(* ------------------------------- state -------------------------------- *)

VARIABLES
    code,       \* per declaration: what derive_validatable made of it
    subject,    \* the value the program holds, with its type
    ret,        \* what validate() returned for the subject
    call        \* the last validate_with / validate_ex call on the subject

vars == <<code, subject, ret, call>>

(* ----------------------- running the validators ----------------------- *)
(* Values: an integer; a text (sequence of characters); [k |-> "none"] and *)
(* [k |-> "some", v |-> x] for Option; a sequence of items for Vec; the    *)
(* sequence of its field values for a struct; [variant, f] for an enum.    *)

\* `Validator::new(..)` as the generated code evaluates it: a pattern is
\* compiled with Regex::new(..).unwrap(), which panics on a malformed one
expr_panics(e) == e.kind = "Pattern" /\ ~Regex_new_ok(e.regex_src)

expr_value(e) ==
    IF e.kind = "Pattern" THEN [kind |-> "Pattern", pattern |-> e.regex_src] ELSE e

RECURSIVE Validator_validate(_, _, _, _)
RECURSIVE VecValidator_items(_, _, _, _, _)
RECURSIVE run_checks(_, _, _, _, _)
RECURSIVE run_fields(_, _, _, _, _)

\* mutant: the declared constraints run before the field type's own validator
run_field_checks_first(fc, path, values, out) ==
    LET child_path == Field(path, fc.name)
        field_value == values[fc.expr]
        own == run_checks(fc.checks, 1, child_path, field_value, out)
    IN  Validator_validate(DefaultValidator(fc.ty), child_path, field_value, own)

\* mutant: the child path is built on Root, the parent is dropped
run_field_from_root(fc, path, values, out) ==
    LET child_path == Field(Root, fc.name)
        field_value == values[fc.expr]
        nested == Validator_validate(DefaultValidator(fc.ty), child_path, field_value, out)
    IN  run_checks(fc.checks, 1, child_path, field_value, nested)

\* the block generated by create_checks_for_field for one field
run_field(fc, path, values, out) ==
    LET child_path == Field(path, fc.name)
        field_value == values[fc.expr]
        nested == Validator_validate(DefaultValidator(fc.ty), child_path, field_value, out)
    IN  run_checks(fc.checks, 1, child_path, field_value, nested)

\* the generated checks of a field, from the i-th on
run_checks(checks, i, child_path, field_value, out) ==
    IF out.panicked \/ i > Len(checks) THEN out
    ELSE LET c == checks[i]
             after ==
                IF expr_panics(c.validator_expr) THEN panic(out)
                ELSE IF c.is_option
                THEN Validator_validate(OptionValidator_new(expr_value(c.validator_expr)),
                                        child_path, field_value, out)
                ELSE Validator_validate(expr_value(c.validator_expr),
                                        child_path, field_value, out)
         IN  run_checks(checks, i + 1, child_path, field_value, after)

\* the generated blocks of the fields, from the i-th on
run_fields(fields, i, path, values, out) ==
    IF out.panicked \/ i > Len(fields) THEN out
    ELSE run_fields(fields, i + 1, path, values, run_field(fields[i], path, values, out))

\* the arm of `match value` that the value's variant selects
match_arm(arms, value) ==
    arms[CHOOSE i \in 1..Len(arms) : arms[i].variant = value.variant]

\* the validate function generated for a derived type
derived_validate(checks, path, value, out) ==
    IF checks.data = "Struct" THEN run_fields(checks.fields, 1, path, value, out)
    ELSE run_fields(match_arm(checks.arms, value).fields, 1, path, value.f, out)

\* mutant: a present value is skipped like an absent one
OptionValidator_validate_skip(self, path, value, out) == out

OptionValidator_validate(self, path, value, out) ==
    IF value.k = "some" THEN Validator_validate(self.inner, path, value.v, out) ELSE out

\* mutant: the items are numbered from one
VecValidator_items_one_based(self, path, value, i, out) ==
    IF out.panicked \/ i > Len(value) THEN out
    ELSE VecValidator_items(self, path, value, i + 1,
            Validator_validate(self.inner, Item(path, i), value[i], out))

\* the loop of VecValidator::validate from position i on (index i - 1)
VecValidator_items(self, path, value, i, out) ==
    IF out.panicked \/ i > Len(value) THEN out
    ELSE VecValidator_items(self, path, value, i + 1,
            Validator_validate(self.inner, Item(path, i - 1), value[i], out))

VecValidator_validate(self, path, value, out) == VecValidator_items(self, path, value, 1, out)

\* mutant: a validator does nothing once the list holds an error
Validator_validate_stops_on_errors(self, path, value, out) ==
    IF out.panicked \/ out.errors # <<>> THEN out
    ELSE CASE self.kind = "AlwaysValid" -> out
           [] self.kind = "Option" -> OptionValidator_validate(self, path, value, out)
           [] self.kind = "Vec" -> VecValidator_validate(self, path, value, out)
           [] self.kind = "Derived" -> derived_validate(code[self.name].checks, path, value, out)
           [] OTHER -> Primitive_validate(self, path, value, out)

Validator_validate(self, path, value, out) ==
    IF out.panicked THEN out
    ELSE CASE self.kind = "AlwaysValid" -> out
           [] self.kind = "Option" -> OptionValidator_validate(self, path, value, out)
           [] self.kind = "Vec" -> VecValidator_validate(self, path, value, out)
           [] self.kind = "Derived" -> derived_validate(code[self.name].checks, path, value, out)
           [] OTHER -> Primitive_validate(self, path, value, out)

(* ----------------------------- Validatable ---------------------------- *)

Ok == [tag |-> "Ok"]

Err(errors) == [tag |-> "Err", errors |-> errors]

Panic == [tag |-> "Panic"]

\* mutant: the accumulator is returned as Err without the is_empty test
validate_with_no_empty_test(value, validator) ==
    LET out == Validator_validate(validator, Root, value, NoErrors)
    IN  IF out.panicked THEN Panic ELSE Err(out.errors)

validate_with(value, validator) ==
    LET out == Validator_validate(validator, Root, value, NoErrors)
    IN  IF out.panicked THEN Panic
        ELSE IF out.errors = <<>> THEN Ok ELSE Err(out.errors)

validate(ty, value) == validate_with(value, DefaultValidator(ty))

validate_ex(ty, value, path, errors) ==
    Validator_validate(DefaultValidator(ty), path, value, [errors |-> errors, panicked |-> FALSE])

(* --------------------------- the declarations ------------------------- *)
(* The types the macro is applied to: those of tests/macros.rs, cut down   *)
(* to i8 and u8 fields, and declarations that exercise the other branches  *)
(* of the macro.                                                           *)

NamedField(ident, ty, attrs) == [named |-> TRUE, ident |-> ident, ty |-> ty, attrs |-> attrs]

UnnamedField(ty, attrs) == [named |-> FALSE, ident |-> <<>>, ty |-> ty, attrs |-> attrs]

Schema(args) == [path |-> "schema", parses |-> TRUE, args |-> args]

Param(args) == [path |-> "param", parses |-> TRUE, args |-> args]

NV(name, value) == [form |-> "NameValue", path |-> name, value |-> value]

Struct(ident, style, list) ==
    [ident |-> ident, data |-> "Struct", fields |-> [style |-> style, list |-> list]]

Variant(ident, style, list) == [ident |-> ident, fields |-> [style |-> style, list |-> list]]

\* struct IntegerFields {
\*     #[doc = ".."] #[schema(example = 0, minimum = -1, maximum = 3)] signed8: i8,
\*     #[schema(exclusive_minimum = 1, exclusive_maximum = 3)] unsigned8: u8,
\*     #[schema(multiple_of = 2)] even: i8 }
IntegerFields ==
    Struct("IntegerFields", "Named", <<
        NamedField(<<"s", "i", "g", "n", "e", "d", "8">>, TyI8,
            <<[path |-> "doc", parses |-> FALSE, args |-> <<>>],
              Schema(<<NV("example", 0), NV("minimum", -1), NV("maximum", 3)>>)>>),
        NamedField(<<"u", "n", "s", "i", "g", "n", "e", "d", "8">>, TyU8,
            <<Schema(<<NV("exclusive_minimum", 1), NV("exclusive_maximum", 3)>>)>>),
        NamedField(<<"e", "v", "e", "n">>, TyI8, <<Schema(<<NV("multiple_of", 2)>>)>>)>>)

\* struct StringFields {
\*     #[schema(min_length = 1, max_length = 1)] s: String,
\*     #[schema(pattern = "^[0-9a-f]+$")] hex: String }
StringFields ==
    Struct("StringFields", "Named", <<
        NamedField(<<"s">>, TyString, <<Schema(<<NV("min_length", 1), NV("max_length", 1)>>)>>),
        NamedField(<<"h", "e", "x">>, TyString, <<Schema(<<NV("pattern", PatHex)>>)>>)>>)

\* struct UnnamedOption(#[schema(minimum = 3)] Option<u8>);
UnnamedOption ==
    Struct("UnnamedOption", "Unnamed",
        <<UnnamedField(TyOption(TyU8), <<Schema(<<NV("minimum", 3)>>)>>)>>)

\* struct UnnamedVec(#[schema(min_items = 1, max_items = 1)] Vec<u8>);
UnnamedVec ==
    Struct("UnnamedVec", "Unnamed",
        <<UnnamedField(TyVec(TyU8), <<Schema(<<NV("min_items", 1), NV("max_items", 1)>>)>>)>>)

\* enum Enum { A { #[schema(minimum = 1)] one: u8 }, B(#[schema(minimum = 1)] u8), C,
\*             D(#[param(maximum = 2, multiple_of = 2)] u8, #[schema(minimum = 1)] u8) }
Enum ==
    [ident |-> "Enum", data |-> "Enum", variants |-> <<
        Variant(<<"A">>, "Named",
            <<NamedField(<<"o", "n", "e">>, TyU8, <<Schema(<<NV("minimum", 1)>>)>>)>>),
        Variant(<<"B">>, "Unnamed", <<UnnamedField(TyU8, <<Schema(<<NV("minimum", 1)>>)>>)>>),
        Variant(<<"C">>, "Unit", <<>>),
        Variant(<<"D">>, "Unnamed",
            <<UnnamedField(TyU8, <<Param(<<NV("maximum", 2), NV("multiple_of", 2)>>)>>),
              UnnamedField(TyU8, <<Schema(<<NV("minimum", 1)>>)>>)>>)>>]

\* struct Nested { o: UnnamedOption }
Nested ==
    Struct("Nested", "Named", <<NamedField(<<"o">>, TyNamed("UnnamedOption"), <<>>)>>)

\* struct Batch { #[schema(max_items = 1)] items: Vec<UnnamedOption> }
Batch ==
    Struct("Batch", "Named", <<
        NamedField(<<"i", "t", "e", "m", "s">>, TyVec(TyNamed("UnnamedOption")),
            <<Schema(<<NV("max_items", 1)>>)>>)>>)

\* struct Divisors(#[schema(multiple_of = -1)] i8, #[schema(minimum = 1)] u8);
Divisors ==
    Struct("Divisors", "Unnamed", <<
        UnnamedField(TyI8, <<Schema(<<NV("multiple_of", -1)>>)>>),
        UnnamedField(TyU8, <<Schema(<<NV("minimum", 1)>>)>>)>>)

\* struct ZeroDivisor(#[schema(multiple_of = 0)] u8);
ZeroDivisor ==
    Struct("ZeroDivisor", "Unnamed", <<UnnamedField(TyU8, <<Schema(<<NV("multiple_of", 0)>>)>>)>>)

\* struct BadPattern { #[schema(pattern = "(")] p: Option<String> }
BadPattern ==
    Struct("BadPattern", "Named", <<
        NamedField(<<"p">>, TyOption(TyString), <<Schema(<<NV("pattern", PatBad)>>)>>)>>)

\* struct Marker;
Marker == Struct("Marker", "Unit", <<>>)

\* struct Malformed { #[schema(= 3)] x: u8 }: the arguments are no Meta list
Malformed ==
    Struct("Malformed", "Named", <<
        NamedField(<<"x">>, TyU8, <<[path |-> "schema", parses |-> FALSE, args |-> <<>>]>>)>>)

\* union Raw { .. }
Raw == [ident |-> "Raw", data |-> "Union"]

\* the declarations, in the order the macro is expanded on them
DeclOrder ==
    <<IntegerFields, StringFields, UnnamedOption, UnnamedVec, Enum, Nested, Batch,
      Divisors, ZeroDivisor, BadPattern, Marker, Malformed, Raw>>

DeclNames == {DeclOrder[i].ident : i \in 1..Len(DeclOrder)}

Decl(name) == DeclOrder[CHOOSE i \in 1..Len(DeclOrder) : DeclOrder[i].ident = name]

(* ------------------------------ the values ---------------------------- *)

I8Values == {-128, -2, -1, 0, 3, 4, 127}

U8Values == {0, 1, 2, 3, 255}

Chars == {"a", "z", "U+00E9"}

SeqsUpTo(S, n) == UNION {[1..k -> S] : k \in 0..n}

RECURSIVE TupleProduct(_)
TupleProduct(sets) ==
    IF sets = <<>> THEN {<<>>}
    ELSE {<<h>> \o t : h \in Head(sets), t \in TupleProduct(Tail(sets))}

RECURSIVE ValuesOf(_)
FieldValues(fields) == TupleProduct([i \in 1..Len(fields.list) |-> ValuesOf(fields.list[i].ty)])

ValuesOf(t) ==
    CASE t.ident = "i8" -> I8Values
      [] t.ident = "u8" -> U8Values
      [] t.ident = "String" -> SeqsUpTo(Chars, MaxStrLen)
      [] t.ident = "Option" ->
            {[k |-> "none"]} \cup {[k |-> "some", v |-> x] : x \in ValuesOf(t.arg)}
      [] t.ident = "Vec" -> SeqsUpTo(ValuesOf(t.arg), MaxVecLen)
      [] OTHER ->
            LET d == Decl(t.ident)
            IN  IF d.data = "Struct" THEN FieldValues(d.fields)
                ELSE UNION {{[variant |-> d.variants[i].ident, f |-> fs] :
                                fs \in FieldValues(d.variants[i].fields)} :
                            i \in 1..Len(d.variants)}

\* the types of the values the program validates
SubjectTypes ==
    {TyI8, TyU8, TyString, TyOption(TyU8), TyVec(TyU8),
     TyVec(TyOption(TyNamed("UnnamedOption")))}
        \cup {TyNamed(n) : n \in {m \in DeclNames : code[m].status = "derived"}}

\* the validators a caller can build for validate_with
Divisors_of(ty) == IF IsSigned(ty) THEN {-2, -1, 0, 1, 2, 3} ELSE {0, 1, 2, 3}

IntValidators(ty, limits) ==
    {[kind |-> "Minimum", minimum |-> l] : l \in limits}
        \cup {[kind |-> "Maximum", maximum |-> l] : l \in limits}
        \cup {[kind |-> "ExclusiveMinimum", exclusive_minimum |-> l] : l \in limits}
        \cup {[kind |-> "ExclusiveMaximum", exclusive_maximum |-> l] : l \in limits}
        \cup {[kind |-> "MultipleOf", multiple_of |-> d, ty |-> ty] : d \in Divisors_of(ty)}

ValidatorsFor(t) ==
    {AlwaysValidValidator, DefaultValidator(t)} \cup
    CASE t.ident = "i8" -> IntValidators("i8", I8Values)
      [] t.ident = "u8" -> IntValidators("u8", U8Values)
      [] t.ident = "String" ->
            {[kind |-> "MinLength", min_length |-> n] : n \in 0..MaxStrLen}
                \cup {[kind |-> "MaxLength", max_length |-> n] : n \in 0..MaxStrLen}
                \cup {[kind |-> "Pattern", pattern |-> p] : p \in {PatHex, PatA}}
      [] t.ident = "Option" ->
            {OptionValidator_new(v) : v \in IntValidators(t.arg.ident, U8Values)}
      [] t.ident = "Vec" ->
            {[kind |-> "MinItems", min_items |-> n] : n \in 0..MaxVecLen}
                \cup {[kind |-> "MaxItems", max_items |-> n] : n \in 0..MaxVecLen}
      [] OTHER -> {}

\* the paths validate_ex is called at
Paths ==
    {Root, Field(Root, <<"a">>), Item(Root, 2), Item(Field(Root, <<"a">>), 0),
     Field(Field(Root, <<"a">>), <<"b">>)}

\* an error an earlier pass left in the caller's accumulator
PriorError == ValidationError("Maximum", <<"p">>, <<"9">>, <<"8">>)

PriorErrors == {[i \in 1..k |-> PriorError] : k \in 0..MaxPrior}

(* ------------------------------- actions ------------------------------ *)

Idle == [live |-> FALSE]

NoRet == [tag |-> "none"]

NoCall == [op |-> "none"]

Init ==
    /\ code = [n \in DeclNames |-> NotDerived]
    /\ subject = Idle
    /\ ret = NoRet
    /\ call = NoCall

\* the macro is expanded on the next declaration
Derive ==
    /\ \E i \in 1..Len(DeclOrder) :
        /\ code[DeclOrder[i].ident].status = "pending"
        /\ \A j \in 1..(i - 1) : code[DeclOrder[j].ident].status # "pending"
        /\ code' = [code EXCEPT ![DeclOrder[i].ident] = derive_validatable(DeclOrder[i])]
    /\ UNCHANGED <<subject, ret, call>>

Built == \A n \in DeclNames : code[n].status # "pending"

\* the program builds a value
Construct ==
    /\ Built
    /\ ~subject.live
    /\ \E t \in SubjectTypes : \E v \in ValuesOf(t) :
        subject' = [live |-> TRUE, ty |-> t, value |-> v]
    /\ UNCHANGED <<code, ret, call>>

Validate ==
    /\ subject.live
    /\ ret = NoRet
    /\ ret' = validate(subject.ty, subject.value)
    /\ UNCHANGED <<code, subject, call>>

\* `call` records one call on the subject at a time
ValidateWith ==
    /\ subject.live
    /\ call = NoCall
    /\ \E v \in ValidatorsFor(subject.ty) :
        call' = [op |-> "validate_with", validator |-> v,
                 ret |-> validate_with(subject.value, v)]
    /\ UNCHANGED <<code, subject, ret>>

ValidateEx ==
    /\ subject.live
    /\ call = NoCall
    /\ \E path \in Paths : \E errors \in PriorErrors :
        call' = [op |-> "validate_ex", path |-> path, errors |-> errors,
                 out |-> validate_ex(subject.ty, subject.value, path, errors)]
    /\ UNCHANGED <<code, subject, ret>>

\* Validator::validate of a library validator called directly, at any path
\* and on the caller's list (a generated validator is run by validate_ex)
CallValidator ==
    /\ subject.live
    /\ subject.ty.ident \notin DeclNames
    /\ call = NoCall
    /\ \E v \in ValidatorsFor(subject.ty) : \E path \in Paths : \E errors \in PriorErrors :
        call' = [op |-> "Validator_validate", validator |-> v, path |-> path,
                 errors |-> errors,
                 out |-> Validator_validate(v, path, subject.value,
                                            [errors |-> errors, panicked |-> FALSE])]
    /\ UNCHANGED <<code, subject, ret>>

\* whether `call` already records a repeated call
Repeated == "first" \in DOMAIN call

\* the recorded call is made once more, with the same validator and path on
\* the same value; validate_ex and Validator::validate get the caller's list
\* as the first call left it
Repeat ==
    /\ subject.live
    /\ call # NoCall
    /\ ~Repeated
    /\ call' =
        CASE call.op = "validate_with" ->
                [op |-> "validate_with", validator |-> call.validator,
                 ret |-> validate_with(subject.value, call.validator), first |-> call]
          [] call.op = "validate_ex" ->
                [op |-> "validate_ex", path |-> call.path, errors |-> call.out.errors,
                 out |-> validate_ex(subject.ty, subject.value, call.path, call.out.errors),
                 first |-> call]
          [] call.op = "Validator_validate" ->
                [op |-> "Validator_validate", validator |-> call.validator,
                 path |-> call.path, errors |-> call.out.errors,
                 out |-> Validator_validate(call.validator, call.path, subject.value,
                            [errors |-> call.out.errors, panicked |-> FALSE]),
                 first |-> call]
    /\ UNCHANGED <<code, subject, ret>>

\* the value goes out of scope
Drop ==
    /\ subject.live
    /\ subject' = Idle
    /\ ret' = NoRet
    /\ call' = NoCall
    /\ UNCHANGED code

Next == Derive \/ Construct \/ Validate \/ ValidateWith \/ ValidateEx \/ CallValidator \/ Repeat \/ Drop

Spec == Init /\ [][Next]_vars

(* ------------------- what the declarations require -------------------- *)
(* The constraints as the specification states them, read off the          *)
(* declaration (not off the generated code).                               *)

RECURSIVE SumSeq(_)
SumSeq(ns) == IF ns = <<>> THEN 0 ELSE Head(ns) + SumSeq(Tail(ns))

IsDerived(t) == t.ident \in DeclNames

\* the (name, value) pairs declared on a field, in declaration order
DeclaredMetas(field) ==
    Flatten([i \in 1..Len(field.attrs) |->
        IF field.attrs[i].path \in {"schema", "param"} THEN field.attrs[i].args ELSE <<>>])

IsMultiple(v, d) == IF d = 0 THEN v = 0 ELSE Abs(v) % Abs(d) = 0

\* whether the (unwrapped) value v breaks the declared constraint
Breaks(meta, v) ==
    CASE meta.path = "minimum" -> v < meta.value
      [] meta.path = "maximum" -> v > meta.value
      [] meta.path = "exclusive_minimum" -> v <= meta.value
      [] meta.path = "exclusive_maximum" -> v >= meta.value
      [] meta.path = "min_length" -> String_len(v) < meta.value
      [] meta.path = "max_length" -> String_len(v) > meta.value
      [] meta.path = "min_items" -> Len(v) < meta.value
      [] meta.path = "max_items" -> Len(v) > meta.value
      [] meta.path = "pattern" -> ~Regex_is_match(meta.value, v)
      [] meta.path = "multiple_of" -> ~IsMultiple(v, meta.value)
      [] OTHER -> FALSE

\* the positions of the declared constraints that the field's value breaks
BrokenMetas(field, fv) ==
    LET metas == DeclaredMetas(field)
    IN  {i \in 1..Len(metas) :
            IF is_option(field.ty)
            THEN fv.k = "some" /\ Breaks(metas[i], fv.v)
            ELSE Breaks(metas[i], fv)}

RECURSIVE ViolationCount(_, _)
FieldsViolationCount(fields, values) ==
    SumSeq([i \in 1..Len(fields.list) |->
        ViolationCount(fields.list[i].ty, values[i])
            + Cardinality(BrokenMetas(fields.list[i], values[i]))])

\* the number of (field, constraint) violations anywhere in the value
ViolationCount(t, value) ==
    CASE t.ident \in ScalarIdents -> 0
      [] t.ident = "Option" ->
            IF value.k = "some" THEN ViolationCount(t.arg, value.v) ELSE 0
      [] t.ident = "Vec" ->
            SumSeq([i \in 1..Len(value) |-> ViolationCount(t.arg, value[i])])
      [] OTHER ->
            LET d == Decl(t.ident)
            IN  IF d.data = "Struct" THEN FieldsViolationCount(d.fields, value)
                ELSE LET v == d.variants[CHOOSE i \in 1..Len(d.variants) :
                                            d.variants[i].ident = value.variant]
                     IN  FieldsViolationCount(v.fields, value.f)

\* whether the declaration holds a pattern that is no regular expression
FieldsMalformedPattern(fields) ==
    \E i \in 1..Len(fields.list) :
        \E j \in 1..Len(DeclaredMetas(fields.list[i])) :
            LET m == DeclaredMetas(fields.list[i])[j]
            IN  m.path = "pattern" /\ ~Regex_new_ok(m.value)

HasMalformedPattern(d) ==
    CASE d.data = "Struct" -> FieldsMalformedPattern(d.fields)
      [] d.data = "Enum" -> \E i \in 1..Len(d.variants) : FieldsMalformedPattern(d.variants[i].fields)
      [] OTHER -> FALSE

DerivedSubject == subject.live /\ IsDerived(subject.ty)

(* ------------------------------- claims ------------------------------- *)

\* C1: validation is exhaustive: validate() of a derived value whose fields
\* break N declared constraints in all (each field at most one) returns an
\* error list of exactly N entries, and Ok when N = 0.
C1_Exhaustive ==
    (DerivedSubject /\ ~HasMalformedPattern(Decl(subject.ty.ident)) /\ ret # NoRet) =>
        LET n == ViolationCount(subject.ty, subject.value)
        IN  IF n = 0 THEN ret = Ok ELSE ret.tag = "Err" /\ Len(ret.errors) = n

\* what validate/validate_with must return for a pass that ended as `out`
Returns(r, out) ==
    /\ (r = Panic) <=> out.panicked
    /\ (r = Ok) <=> (~out.panicked /\ out.errors = <<>>)
    /\ (r.tag = "Err") <=> (~out.panicked /\ out.errors # <<>>)
    /\ r.tag = "Err" => r.errors = out.errors

\* C2: validate(v) returns what a validate_ex(v, Root, empty list) run leaves:
\* Ok exactly when the run appended nothing, else Err with exactly the errors
\* appended, in order, and never Err with an empty list; validate_with(v, V)
\* is the same with V in place of the default validator.
C2_ValidateIsValidateEx ==
    /\ (subject.live /\ ret # NoRet /\ call.op = "validate_ex"
            /\ call.path = Root /\ call.errors = <<>>) => Returns(ret, call.out)
    /\ (subject.live /\ call.op = "validate_with") =>
            Returns(call.ret, Validator_validate(call.validator, Root, subject.value, NoErrors))
    /\ (subject.live /\ ret # NoRet /\ call.op = "validate_with"
            /\ call.validator = DefaultValidator(subject.ty)) => call.ret = ret

C2_Witness ==
    /\ subject.live
    /\ ret.tag = "Err"
    /\ Len(ret.errors) >= 2
    /\ call.op = "validate_ex"
    /\ call.path = Root
    /\ call.errors = <<>>
    /\ call.out.errors = ret.errors

\* C3: no primitive validator panics, whatever its limit and the value
\* (MultipleOf with divisor 0 included).
C3_PrimitivesNeverPanic ==
    (subject.live /\ call.op = "validate_with" /\ call.validator.kind \in PrimitiveKinds) =>
        call.ret # Panic

\* C4: a declaration with an unparsable pattern aborts its derivation, and no
\* validate call on a value of such a type fails at run time.
C4_MalformedPatternStopsDerivation ==
    /\ \A n \in DeclNames :
        (HasMalformedPattern(Decl(n)) /\ code[n].status # "pending") =>
            code[n].status = "aborted"
    /\ (DerivedSubject /\ HasMalformedPattern(Decl(subject.ty.ident))) => ret # Panic

BoundKinds == {"Minimum", "Maximum", "ExclusiveMinimum", "ExclusiveMaximum"}

\* the single error a bound validator with limit l reports for v at Root
BoundError(kind, v, l) == ValidationError(kind, <<>>, to_string(v), to_string(l))

\* C5: Minimum(L) reports an error iff v < L and Maximum(L) iff v > L (v = L is
\* accepted); ExclusiveMinimum(L) iff v <= L and ExclusiveMaximum(L) iff v >= L
\* (v = L is rejected).
C5_BoundaryInclusivity ==
    (subject.live /\ call.op = "validate_with" /\ call.validator.kind \in BoundKinds) =>
        LET v == subject.value
            k == call.validator.kind
            l == CASE k = "Minimum" -> call.validator.minimum
                   [] k = "Maximum" -> call.validator.maximum
                   [] k = "ExclusiveMinimum" -> call.validator.exclusive_minimum
                   [] k = "ExclusiveMaximum" -> call.validator.exclusive_maximum
            rejected == CASE k = "Minimum" -> v < l
                          [] k = "Maximum" -> v > l
                          [] k = "ExclusiveMinimum" -> v <= l
                          [] k = "ExclusiveMaximum" -> v >= l
        IN  call.ret = IF rejected THEN Err(<<BoundError(k, v, l)>>) ELSE Ok

C5_Witness ==
    /\ subject.live
    /\ call.op = "validate_with"
    /\ call.validator.kind = "ExclusiveMinimum"
    /\ call.validator.exclusive_minimum = subject.value
    /\ call.ret.tag = "Err"

(* helpers of the claims about derived validators *)

\* the errors a validate_ex call appended to the accumulator it was given
Appended(c) == SubSeq(c.out.errors, Len(c.errors) + 1, Len(c.out.errors))

\* the rendered path of a field segment under a parent rendered as `rendered`
JoinSegment(rendered, seg) == IF rendered = <<>> THEN seg ELSE rendered \o <<".">> \o seg

\* the error path is the child path or lies below it
BelongsTo(path, child) ==
    /\ Len(path) >= Len(child)
    /\ SubSeq(path, 1, Len(child)) = child
    /\ Len(path) > Len(child) => path[Len(child) + 1] \in {".", "["}

SubjectDecl == Decl(subject.ty.ident)

\* the declared fields that the subject's value holds: those of the struct,
\* or of the variant the value is of
ActiveFields ==
    IF SubjectDecl.data = "Struct" THEN SubjectDecl.fields
    ELSE SubjectDecl.variants[CHOOSE i \in 1..Len(SubjectDecl.variants) :
                                SubjectDecl.variants[i].ident = subject.value.variant].fields

ActiveValues == IF SubjectDecl.data = "Struct" THEN subject.value ELSE subject.value.f

\* the generated blocks of those fields
ActiveCode ==
    LET checks == code[subject.ty.ident].checks
    IN  IF checks.data = "Struct" THEN checks.fields
        ELSE match_arm(checks.arms, subject.value).fields

\* a finished pass over the derived subject: validate() (at Root) ...
ReturnedPass == DerivedSubject /\ ret.tag = "Err"

\* ... or a validate_ex call that did not panic
ExPass == DerivedSubject /\ call.op = "validate_ex" /\ ~call.out.panicked

SoleOptionField(t) ==
    /\ IsDerived(t)
    /\ Decl(t.ident).data = "Struct"
    /\ Len(Decl(t.ident).fields.list) = 1
    /\ is_option(Decl(t.ident).fields.list[1].ty)

\* C6: for an optional field with declared constraints, an absent value yields
\* no error, and a present value yields exactly what the same constraints yield
\* on the unwrapped value (a field of the inner type), at the field's own path.
C6_OptionalSkip ==
    /\ (subject.live /\ SoleOptionField(subject.ty) /\ call.op = "validate_ex") =>
        LET field == SubjectDecl.fields.list[1]
            fv == subject.value[1]
            name == ActiveCode[1].name
            unwrapped == [field EXCEPT !.ty = field.ty.arg]
        IN  IF fv.k = "none" THEN call.out.errors = call.errors
            ELSE /\ call.out = run_field(create_checks_for_field(unwrapped, 1, name),
                                         call.path, <<fv.v>>,
                                         [errors |-> call.errors, panicked |-> FALSE])
                 /\ \A k \in 1..Len(Appended(call)) :
                        Appended(call)[k].path = JoinSegment(ValidationPath_fmt(call.path), name)
    /\ (subject.live /\ subject.ty.ident = "Option" /\ call.op = "validate_with"
            /\ call.validator.kind = "Option") =>
        IF subject.value.k = "none" THEN call.ret = Ok
        ELSE call.ret = validate_with(subject.value.v, call.validator.inner)

C6_Witness ==
    /\ subject.live
    /\ subject.ty.ident = "UnnamedOption"
    /\ subject.value[1].k = "some"
    /\ call.op = "validate_ex"
    /\ call.path # Root
    /\ Len(Appended(call)) = 1
    /\ Appended(call)[1].category = "Minimum"

\* the category reported for a declared constraint name
CategoryOf(name) ==
    CASE name = "minimum" -> "Minimum"
      [] name = "maximum" -> "Maximum"
      [] name = "exclusive_minimum" -> "ExclusiveMinimum"
      [] name = "exclusive_maximum" -> "ExclusiveMaximum"
      [] name = "min_length" -> "MinLength"
      [] name = "max_length" -> "MaxLength"
      [] name = "min_items" -> "MinItems"
      [] name = "max_items" -> "MaxItems"
      [] name = "multiple_of" -> "MultipleOf"
      [] name = "pattern" -> "Pattern"
      [] OTHER -> "none"

\* the segment the declaration gives the i-th active field: its declared name
\* or its position, qualified by the variant for a union
DeclaredSegment(i) ==
    LET field == ActiveFields.list[i]
    IN  IF SubjectDecl.data = "Struct"
        THEN (IF field.named THEN field.ident ELSE nat_to_string(i - 1))
        ELSE subject.value.variant \o <<".">> \o
                (IF field.named THEN field.ident ELSE <<"_">> \o nat_to_string(i - 1))

\* the rendered child path of the i-th active field under path p
ChildText(p, i) == JoinSegment(ValidationPath_fmt(p), DeclaredSegment(i))

IsOwner(e, p, i) == BelongsTo(e.path, ChildText(p, i))

Owner(e, p) == CHOOSE i \in 1..Len(ActiveFields.list) : IsOwner(e, p, i)

\* where the constraint that reports `category` stands in the field's declaration
ConstraintPos(field, category) ==
    CHOOSE j \in 1..Len(DeclaredMetas(field)) : CategoryOf(DeclaredMetas(field)[j].path) = category

InDeclarationOrder(errs, p) ==
    /\ \A a \in 1..Len(errs) : \E i \in 1..Len(ActiveFields.list) : IsOwner(errs[a], p, i)
    /\ \A a, b \in 1..Len(errs) :
        a < b =>
            /\ Owner(errs[a], p) <= Owner(errs[b], p)
            /\ (errs[a].path = errs[b].path /\ errs[a].path = ChildText(p, Owner(errs[a], p))) =>
                    ConstraintPos(ActiveFields.list[Owner(errs[a], p)], errs[a].category)
                        < ConstraintPos(ActiveFields.list[Owner(errs[a], p)], errs[b].category)

\* C7: in the list of a record the errors of an earlier declared field precede
\* those of a later one; for a union every error is of a field of the matched
\* variant, in that variant's field order and, within a field, in the order
\* its constraints are declared.
C7_DeclarationOrder ==
    /\ ReturnedPass => InDeclarationOrder(ret.errors, Root)
    /\ ExPass => InDeclarationOrder(Appended(call), call.path)

C7_Witness ==
    /\ ReturnedPass
    /\ SubjectDecl.data = "Enum"
    /\ Len(ret.errors) = 3
    /\ ret.errors[1].path = ret.errors[2].path
    /\ ret.errors[3].path # ret.errors[1].path

\* the errors of the i-th active field in errs are the field type's own
\* (nested) errors, then one error at the field's path per broken constraint
NestedThenOwn(errs, p, i) ==
    LET mine == SelectSeq(errs, LAMBDA e : IsOwner(e, p, i))
        nested == validate_ex(ActiveFields.list[i].ty, ActiveValues[i],
                              Field(p, DeclaredSegment(i)), <<>>).errors
    IN  /\ Len(mine) = Len(nested) + Cardinality(BrokenMetas(ActiveFields.list[i], ActiveValues[i]))
        /\ SubSeq(mine, 1, Len(nested)) = nested
        /\ \A k \in (Len(nested) + 1)..Len(mine) : mine[k].path = ChildText(p, i)
        /\ \A k \in 1..Len(nested) : mine[k].path # ChildText(p, i)

\* C8: for every field the field type's default validator runs first, then the
\* declared constraints: the nested errors of the field's value come before
\* the errors of the field's own constraints, and none of either is lost.
C8_NestedBeforeOwn ==
    /\ ReturnedPass => \A i \in 1..Len(ActiveFields.list) : NestedThenOwn(ret.errors, Root, i)
    /\ ExPass => \A i \in 1..Len(ActiveFields.list) : NestedThenOwn(Appended(call), call.path, i)

C8_Witness ==
    /\ ReturnedPass
    /\ subject.ty.ident = "Batch"
    /\ Len(ret.errors) = 3
    /\ ret.errors[1].category = "Minimum"
    /\ ret.errors[2].category = "Minimum"
    /\ ret.errors[3].category = "MaxItems"

\* the name of the i-th field of a variant: declared, or "_<index>"
VariantFieldName(fields, i) ==
    IF fields.list[i].named THEN fields.list[i].ident ELSE <<"_">> \o nat_to_string(i - 1)

PathsOf(errs) == {errs[k].path : k \in 1..Len(errs)}

\* C9: every error of a union value of variant V validated at path P has the
\* path render(P) followed by the segment "V.<fieldName>"; values of different
\* variants never share an error path; a variant with no fields yields no error.
C9_VariantQualified ==
    (ExPass /\ SubjectDecl.data = "Enum") =>
        LET errs == Appended(call)
            V == subject.value.variant
        IN  /\ \A k \in 1..Len(errs) :
                \E i \in 1..Len(ActiveFields.list) :
                    errs[k].path = JoinSegment(ValidationPath_fmt(call.path),
                                               V \o <<".">> \o VariantFieldName(ActiveFields, i))
            /\ ActiveFields.list = <<>> => errs = <<>>
            /\ \A w \in ValuesOf(subject.ty) :
                w.variant # V =>
                    PathsOf(validate_ex(subject.ty, w, call.path, <<>>).errors)
                        \cap PathsOf(errs) = {}

C9_Witness ==
    /\ ExPass
    /\ subject.ty.ident = "Enum"
    /\ subject.value.variant = <<"B">>
    /\ call.path = Item(Field(Root, <<"a">>), 0)
    /\ PathsOf(Appended(call)) = {<<"a", "[", "0", "]", ".", "B", ".", "_", "0">>}

FlatType(t) ==
    \/ t.ident \in ScalarIdents
    \/ t.ident \in {"Option", "Vec"} /\ t.arg.ident \in ScalarIdents

\* a pass over a value with positional fields, none of them of a derived type
PositionalPass ==
    /\ ExPass
    /\ ActiveFields.style = "Unnamed"
    /\ \A i \in 1..Len(ActiveFields.list) : FlatType(ActiveFields.list[i].ty)

Underscored(index) == <<"_">> \o nat_to_string(index)

\* the error paths of the pass, the positional field at index i of a variant
\* being named "_<i>" and that of a record "_<i>" or, if not so, "<i>"
PositionalPaths(record_underscored) ==
    {JoinSegment(ValidationPath_fmt(call.path),
                 IF SubjectDecl.data = "Struct"
                 THEN (IF record_underscored THEN Underscored(i - 1) ELSE nat_to_string(i - 1))
                 ELSE subject.value.variant \o <<".">> \o Underscored(i - 1)) :
        i \in {j \in 1..Len(ActiveFields.list) :
                BrokenMetas(ActiveFields.list[j], ActiveValues[j]) # {}}}

\* C10 as claimed: the positional field at index i is named "_<i>" both in a
\* record and in a union variant.
C10_UnderscoreNameEverywhere ==
    PositionalPass => PathsOf(Appended(call)) = PositionalPaths(TRUE)

\* C10 as amended: the positional field at index i of a record is named "<i>"
\* (its path segment is "<i>"); that of a union variant is named "_<i>" (its
\* segment is "<VariantName>._<i>").
C10_PositionalNames ==
    PositionalPass => PathsOf(Appended(call)) = PositionalPaths(FALSE)

C10_Witness ==
    /\ PositionalPass
    /\ subject.ty.ident = "Divisors"
    /\ call.path = Field(Root, <<"a">>)
    /\ PathsOf(Appended(call)) = {<<"a", ".", "1">>}

(* ------------------------- wrapping validators ------------------------ *)

\* a call that handed a path and an accumulator to the validator V
RunOf(V) ==
    /\ subject.live
    /\ \/ call.op = "Validator_validate" /\ call.validator = V
       \/ call.op = "validate_ex" /\ V = DefaultValidator(subject.ty)

\* the errors the inner validator reports for the item at position i
\* (index i - 1) of the subject, on its own, under the path p
ItemErrors(inner, p, i) ==
    Validator_validate(inner, Item(p, i - 1), subject.value[i], NoErrors).errors

\* C12: the Vec validator validates the element at zero-based index i with the
\* inner validator at Item{parent: current path, index: i}, each element once
\* and in increasing index order: what it appends is the errors of element 0,
\* then those of element 1, and so on; an empty Vec appends nothing.
C12_VecInOrder ==
    (subject.live /\ subject.ty.ident = "Vec" /\ RunOf(DefaultValidator(subject.ty))) =>
        LET inner == DefaultValidator(subject.ty.arg)
            n == Len(subject.value)
        IN  /\ ~call.out.panicked
            /\ Appended(call) = Flatten([i \in 1..n |-> ItemErrors(inner, call.path, i)])
            /\ \A i \in 1..n : \A k \in 1..Len(ItemErrors(inner, call.path, i)) :
                    BelongsTo(ItemErrors(inner, call.path, i)[k].path,
                              ValidationPath_fmt(call.path) \o <<"[">> \o to_string(i - 1) \o <<"]">>)
            /\ n = 0 => call.out.errors = call.errors

C12_Witness ==
    /\ subject.live
    /\ subject.ty = TyVec(TyOption(TyNamed("UnnamedOption")))
    /\ call.op = "Validator_validate"
    /\ call.validator = DefaultValidator(subject.ty)
    /\ call.path = Field(Root, <<"a">>)
    /\ Len(Appended(call)) = 2
    /\ Appended(call)[1] =
            ValidationError("Minimum", <<"a", "[", "0", "]", ".", "0">>, <<"2">>, <<"3">>)
    /\ Appended(call)[2] =
            ValidationError("Minimum", <<"a", "[", "1", "]", ".", "0">>, <<"0">>, <<"3">>)

\* Vec<Option<T>> for a derived record T
IsVecOfOptionalRecords(t) ==
    /\ t.ident = "Vec"
    /\ t.arg.ident = "Option"
    /\ IsDerived(t.arg.arg)

\* what the record's own default validator reports for the present element
\* at position i under the path p; nothing for an absent one
ElementErrors(p, i) ==
    IF subject.value[i].k = "some"
    THEN validate_ex(subject.ty.arg.arg, subject.value[i].v, Item(p, i - 1), <<>>).errors
    ELSE <<>>

\* a type built from scalars by Option and Vec only
RECURSIVE ScalarsOnly(_)
ScalarsOnly(t) ==
    \/ t.ident \in ScalarIdents
    \/ t.ident \in {"Option", "Vec"} /\ ScalarsOnly(t.arg)

\* C13: the default validators compose with no declaration: validate_ex on a
\* Vec of optional records appends, for each present element in index order,
\* exactly the errors of the record's default validator at <path>[i], as many
\* as the element breaks constraints, and nothing for an absent element; a
\* scalar, and any Option or Vec of scalars, never yields an error.
C13_DefaultsCompose ==
    /\ (subject.live /\ IsVecOfOptionalRecords(subject.ty) /\ call.op = "validate_ex") =>
        LET n == Len(subject.value)
        IN  /\ ~call.out.panicked
            /\ Appended(call) = Flatten([i \in 1..n |-> ElementErrors(call.path, i)])
            /\ \A i \in 1..n :
                    Len(ElementErrors(call.path, i)) =
                        IF subject.value[i].k = "some"
                        THEN ViolationCount(subject.ty.arg.arg, subject.value[i].v)
                        ELSE 0
    /\ (subject.live /\ IsVecOfOptionalRecords(subject.ty) /\ ret # NoRet) =>
            Returns(ret, validate_ex(subject.ty, subject.value, Root, <<>>))
    /\ (subject.live /\ ScalarsOnly(subject.ty)) =>
        /\ ret \in {NoRet, Ok}
        /\ call.op = "validate_ex" => call.out = [errors |-> call.errors, panicked |-> FALSE]
        /\ (call.op = "validate_with" /\ call.validator = DefaultValidator(subject.ty)) =>
                call.ret = Ok

C13_Witness ==
    /\ subject.live
    /\ subject.ty = TyVec(TyOption(TyNamed("UnnamedOption")))
    /\ subject.value = <<[k |-> "none"], [k |-> "some", v |-> <<[k |-> "some", v |-> 2]>>]>>
    /\ call.op = "validate_ex"
    /\ call.path = Item(Root, 2)
    /\ Appended(call) =
            <<ValidationError("Minimum", <<"[", "2", "]", "[", "1", "]", ".", "0">>,
                              <<"2">>, <<"3">>)>>

\* C14: validating the same value twice with the same validator gives the
\* same outcome: validate_with returns the same result (the same errors in
\* the same order), and a second validate_ex or Validator::validate on the
\* list the first one filled appends the same errors again behind it;
\* validate() and validate_with(default) on the same value agree.
C14_Idempotent ==
    /\ (subject.live /\ Repeated /\ call.op = "validate_with") => call.ret = call.first.ret
    /\ (subject.live /\ Repeated /\ call.op \in {"validate_ex", "Validator_validate"}) =>
        /\ call.out.panicked = call.first.out.panicked
        /\ Appended(call) = Appended(call.first)
        /\ SubSeq(call.out.errors, 1, Len(call.errors)) = call.first.out.errors
    /\ (subject.live /\ ret # NoRet /\ call.op = "validate_with"
            /\ call.validator = DefaultValidator(subject.ty)) => ret = call.ret

C14_Witness ==
    /\ subject.live
    /\ Repeated
    /\ call.op = "validate_ex"
    /\ call.first.errors # <<>>
    /\ Len(Appended(call.first)) >= 2
    /\ Len(call.out.errors) = Len(call.first.errors) + 2 * Len(Appended(call.first))

(* ------------------------ primitive validators ----------------------- *)
(* What the specification states of one primitive validator V applied to a *)
(* value v: when the check fails, and the actual and the limit it reports. *)

LimitOf(V) ==
    CASE V.kind = "Minimum" -> V.minimum
      [] V.kind = "Maximum" -> V.maximum
      [] V.kind = "ExclusiveMinimum" -> V.exclusive_minimum
      [] V.kind = "ExclusiveMaximum" -> V.exclusive_maximum
      [] V.kind = "MinLength" -> V.min_length
      [] V.kind = "MaxLength" -> V.max_length
      [] V.kind = "MinItems" -> V.min_items
      [] V.kind = "MaxItems" -> V.max_items
      [] V.kind = "MultipleOf" -> V.multiple_of
      [] V.kind = "Pattern" -> V.pattern

CheckFails(V, v) ==
    CASE V.kind = "Minimum" -> v < V.minimum
      [] V.kind = "Maximum" -> v > V.maximum
      [] V.kind = "ExclusiveMinimum" -> v <= V.exclusive_minimum
      [] V.kind = "ExclusiveMaximum" -> v >= V.exclusive_maximum
      [] V.kind = "MinLength" -> CharCount(v) < V.min_length
      [] V.kind = "MaxLength" -> CharCount(v) > V.max_length
      [] V.kind = "MinItems" -> Len(v) < V.min_items
      [] V.kind = "MaxItems" -> Len(v) > V.max_items
      [] V.kind = "MultipleOf" -> ~IsMultiple(v, V.multiple_of)
      [] V.kind = "Pattern" -> ~Regex_is_match(V.pattern, v)

StatedActual(V, v) ==
    CASE V.kind \in {"MinLength", "MaxLength"} -> to_string(CharCount(v))
      [] V.kind \in {"MinItems", "MaxItems"} -> to_string(Len(v))
      [] V.kind = "Pattern" -> v
      [] OTHER -> to_string(v)

StatedLimit(V) == IF V.kind = "Pattern" THEN V.pattern ELSE to_string(LimitOf(V))

StatedError(V, p, v) ==
    ValidationError(V.kind, ValidationPath_fmt(p), StatedActual(V, v), StatedLimit(V))

\* a direct call of a primitive validator on the subject
PrimitiveCall ==
    /\ subject.live
    /\ call.op = "Validator_validate"
    /\ call.validator.kind \in PrimitiveKinds

\* C15: one call of a primitive validator appends nothing when the check
\* passes and exactly one error when it fails: the validator's category, the
\* rendered current path, the value as text (the length or the item count for
\* the length and items validators) and the limit as text.
C15_OneErrorWithFields ==
    PrimitiveCall =>
        /\ ~call.out.panicked
        /\ Appended(call) =
                IF CheckFails(call.validator, subject.value)
                THEN <<StatedError(call.validator, call.path, subject.value)>>
                ELSE <<>>

\* a direct call of MinLengthValidator or MaxLengthValidator on a text
LengthCall == PrimitiveCall /\ call.validator.kind \in {"MinLength", "MaxLength"}

\* the text holds only characters of one byte
IsAscii(s) == \A i \in 1..Len(s) : s[i] \notin TwoByteChars

\* C16: for a text of k characters, multi-byte characters included,
\* MinLength(n) appends an error iff k < n and MaxLength(n) iff k > n, and the
\* error's actual is k.
C16_LengthInCharacters ==
    LengthCall =>
        LET k == CharCount(subject.value)
            n == LimitOf(call.validator)
            short == call.validator.kind = "MinLength" /\ k < n
            long == call.validator.kind = "MaxLength" /\ k > n
        IN  /\ (Appended(call) # <<>>) <=> (short \/ long)
            /\ \A i \in 1..Len(Appended(call)) : Appended(call)[i].actual = to_string(k)

\* a direct call of MultipleOfValidator with a nonzero divisor
NonzeroDivisorCall ==
    /\ PrimitiveCall
    /\ call.validator.kind = "MultipleOf"
    /\ call.validator.multiple_of # 0

\* C17: for every value v and nonzero divisor d of the integer type, signed
\* or unsigned, the minimum value and d = -1 included, MultipleOf(d) appends
\* exactly one MultipleOf error iff v is no multiple of d (v % d != 0) and
\* nothing otherwise; 0 is accepted for every nonzero d.
C17_MultipleOf ==
    NonzeroDivisorCall =>
        LET v == subject.value
            d == call.validator.multiple_of
        IN  /\ ~call.out.panicked
            /\ Appended(call) =
                    IF Abs(v) % Abs(d) # 0
                    THEN <<ValidationError("MultipleOf", ValidationPath_fmt(call.path),
                                           to_string(v), to_string(d))>>
                    ELSE <<>>
            /\ v = 0 => call.out.errors = call.errors

(* ---------------------------- field isolation ----------------------- *)

\* a validate_ex call on a value of a derived record type
RecordPass ==
    /\ DerivedSubject
    /\ SubjectDecl.data = "Struct"
    /\ call.op = "validate_ex"

\* what a pass that ended as `out` reports for the i-th field of the record
\* validated at path p: its errors in order, or nothing at all when the
\* pass panicked and no list comes back
ReportedFor(out, p, i) ==
    IF out.panicked THEN [reported |-> FALSE]
    ELSE [reported |-> TRUE,
          errors |-> SelectSeq(SubSeq(out.errors, Len(call.errors) + 1, Len(out.errors)),
                               LAMBDA e : IsOwner(e, p, i))]

\* C18: the errors reported for a field depend on that field's value alone:
\* any other value of the record type that holds the same value in field i
\* gets the same errors for field i (category, path, actual, expected, order),
\* whatever its other fields hold.
C18_FieldIsolation ==
    RecordPass =>
        \A i \in 1..Len(SubjectDecl.fields.list) :
            \A w \in ValuesOf(subject.ty) :
                w[i] = subject.value[i] =>
                    ReportedFor(validate_ex(subject.ty, w, call.path, call.errors), call.path, i)
                        = ReportedFor(call.out, call.path, i)

(* --------------------------- unknown names ---------------------------- *)

RecognizedNames ==
    {"minimum", "maximum", "exclusive_minimum", "exclusive_maximum", "min_length",
     "max_length", "min_items", "max_items", "multiple_of", "pattern"}

\* a declared pair of a name the derivation does not know
UnknownPairs == {NV("example", 7), NV("format", 0), NV("minimun", 200)}

\* the attributes with one unknown pair added to, or one removed from, the
\* list of a schema/param attribute
AttrsAdded(attrs) ==
    {[attrs EXCEPT ![a].args =
            SubSeq(attrs[a].args, 1, k) \o <<u>> \o SubSeq(attrs[a].args, k + 1, Len(attrs[a].args))] :
        <<a, k, u>> \in {t \in (1..Len(attrs)) \X (0..3) \X UnknownPairs :
            /\ attrs[t[1]].path \in {"schema", "param"}
            /\ attrs[t[1]].parses
            /\ t[2] <= Len(attrs[t[1]].args)}}

AttrsRemoved(attrs) ==
    {[attrs EXCEPT ![a].args =
            SubSeq(attrs[a].args, 1, k - 1) \o SubSeq(attrs[a].args, k + 1, Len(attrs[a].args))] :
        <<a, k>> \in {t \in (1..Len(attrs)) \X (1..3) :
            /\ attrs[t[1]].path \in {"schema", "param"}
            /\ attrs[t[1]].parses
            /\ t[2] <= Len(attrs[t[1]].args)
            /\ attrs[t[1]].args[t[2]].path \notin RecognizedNames}}

\* the field lists that differ from `list` by one unknown pair on one field
ListsOffByUnknown(list) ==
    {[list EXCEPT ![i].attrs = a] :
        <<i, a>> \in UNION {{<<j, b>> : b \in AttrsAdded(list[j].attrs) \cup AttrsRemoved(list[j].attrs)} :
                            j \in 1..Len(list)}}

\* the declarations that differ from d by one unknown pair
OffByUnknown(d) ==
    CASE d.data = "Struct" ->
            {[d EXCEPT !.fields.list = l] : l \in ListsOffByUnknown(d.fields.list)}
      [] d.data = "Enum" ->
            UNION {{[d EXCEPT !.variants[j].fields.list = l] :
                        l \in ListsOffByUnknown(d.variants[j].fields.list)} :
                   j \in 1..Len(d.variants)}
      [] OTHER -> {}

\* the categories of the recognized constraints declared on a field, in order
DeclaredCategories(field) ==
    LET known == SelectSeq(DeclaredMetas(field), LAMBDA m : m.path \in RecognizedNames)
    IN  [k \in 1..Len(known) |-> CategoryOf(known[k].path)]

EmittedCategories(fc) == [k \in 1..Len(fc.checks) |-> fc.checks[k].validator_expr.kind]

\* every field's block holds one check per recognized pair, in order
AllRecognizedEmitted(d, checks) ==
    CASE d.data = "Struct" ->
            \A i \in 1..Len(d.fields.list) :
                EmittedCategories(checks.fields[i]) = DeclaredCategories(d.fields.list[i])
      [] d.data = "Enum" ->
            \A j \in 1..Len(d.variants) : \A i \in 1..Len(d.variants[j].fields.list) :
                EmittedCategories(checks.arms[j].fields[i])
                    = DeclaredCategories(d.variants[j].fields.list[i])

\* a step that expands the macro on a declaration
UnknownLeavesChecksAlone ==
    \A n \in DeclNames :
        (code[n].status = "pending" /\ code'[n].status = "derived") =>
            /\ \A d \in OffByUnknown(Decl(n)) : derive_validatable(d) = code'[n]
            /\ AllRecognizedEmitted(Decl(n), code'[n].checks)

\* IntegerFields declares `example = 0` beside minimum and maximum
IntegerFieldsReport ==
    (DerivedSubject /\ subject.ty.ident = "IntegerFields" /\ ret # NoRet) =>
        LET n == ViolationCount(subject.ty, subject.value)
        IN  IF n = 0 THEN ret = Ok ELSE ret.tag = "Err" /\ Len(ret.errors) = n

\* C19: a declared pair of an unknown name emits no check: a declaration that
\* differs by one such pair, added or removed anywhere on a field, derives the
\* very same checks (so the same errors for every value), every recognized
\* pair beside it still has its check, and the record declared with such a
\* pair reports exactly the violations of its recognized constraints.
C19_UnknownNamesIgnored ==
    /\ [][UnknownLeavesChecksAlone]_vars
    /\ [](IntegerFieldsReport)

C19_Witness ==
    /\ code["IntegerFields"].status = "derived"
    /\ DerivedSubject
    /\ subject.ty.ident = "IntegerFields"
    /\ subject.value = <<-2, 2, 0>>
    /\ ret = Err(<<ValidationError("Minimum", <<"s", "i", "g", "n", "e", "d", "8">>,
                                    <<"-", "2">>, <<"-", "1">>)>>)

(* ---------------------------- the accumulator ----------------------- *)

\* a call that was handed the caller's list: validate_ex, or any validator
AccumulatorCall == subject.live /\ call.op \in {"validate_ex", "Validator_validate"}

\* the validator such a call ran
CalledValidator ==
    IF call.op = "validate_ex" THEN DefaultValidator(subject.ty) ELSE call.validator

\* C20: a call handed a list of k errors leaves those k entries unchanged and
\* in place and only adds behind them; what it adds (and whether it returns)
\* is what it adds to an empty list, so no earlier error stops or alters a
\* later validator; and a pass over a derived value that returns has added one
\* error per broken constraint, however many were added before.
C20_AppendOnly ==
    AccumulatorCall =>
        LET k == Len(call.errors)
            alone == Validator_validate(CalledValidator, call.path, subject.value, NoErrors)
        IN  /\ Len(call.out.errors) >= k
            /\ SubSeq(call.out.errors, 1, k) = call.errors
            /\ Appended(call) = alone.errors
            /\ call.out.panicked = alone.panicked
            /\ (call.op = "validate_ex" /\ IsDerived(subject.ty) /\ ~call.out.panicked) =>
                    Len(Appended(call)) = ViolationCount(subject.ty, subject.value)

C20_Witness ==
    /\ AccumulatorCall
    /\ call.op = "validate_ex"
    /\ subject.ty.ident = "Enum"
    /\ Len(call.errors) >= 1
    /\ call.errors[1] = PriorError
    /\ Len(Appended(call)) = 3
    /\ call.out.errors[1] = PriorError

(* ----------------------------- path prefix ----------------------------- *)

StartsWith(text, prefix) ==
    Len(prefix) <= Len(text) /\ SubSeq(text, 1, Len(prefix)) = prefix

CompositeCall ==
    AccumulatorCall /\ CalledValidator.kind \in {"Derived", "Option", "Vec"}

\* C22: every error appended while a derived, option or sequence validator
\* validates a value at path P has a path that starts with the rendering of
\* P; under a derived validator the path is strictly longer than that
\* rendering, so at Root a derived validator never reports an empty path.
C22_PathPrefix ==
    CompositeCall =>
        \A k \in 1..Len(Appended(call)) :
            LET reported == Appended(call)[k].path
                rendered == ValidationPath_fmt(call.path)
            IN  /\ StartsWith(reported, rendered)
                /\ CalledValidator.kind = "Derived" =>
                        /\ Len(reported) > Len(rendered)
                        /\ call.path = Root => reported # <<>>

C22_Witness ==
    /\ CompositeCall
    /\ CalledValidator.kind = "Derived"
    /\ subject.ty = TyNamed("Nested")
    /\ call.path = Field(Field(Root, <<"a">>), <<"b">>)
    /\ call.errors # <<>>
    /\ ~call.out.panicked
    /\ Len(Appended(call)) >= 1

(* --------------------------- rendering paths -------------------------- *)
(* A program that builds a ValidationPath segment by segment and renders   *)
(* it with to_string(); `subject` holds the path, `call` the rendered text.*)

SegNames == {<<"a">>, <<"b">>}

SegIndexes == {0, 2, 10}

TyPath == [ident |-> "ValidationPath"]

RECURSIVE PathDepth(_)
PathDepth(path) == IF path.seg = "Root" THEN 0 ELSE 1 + PathDepth(path.parent)

PathInit ==
    /\ code = [n \in DeclNames |-> NotDerived]
    /\ subject = [live |-> TRUE, ty |-> TyPath, value |-> Root]
    /\ ret = NoRet
    /\ call = NoCall

FieldOf ==
    /\ PathDepth(subject.value) < MaxDepth
    /\ \E name \in SegNames :
        subject' = [subject EXCEPT !.value = Field(subject.value, name)]
    /\ call' = NoCall
    /\ UNCHANGED <<code, ret>>

ItemOf ==
    /\ PathDepth(subject.value) < MaxDepth
    /\ \E index \in SegIndexes :
        subject' = [subject EXCEPT !.value = Item(subject.value, index)]
    /\ call' = NoCall
    /\ UNCHANGED <<code, ret>>

PathToString ==
    /\ call' = [op |-> "to_string", text |-> ValidationPath_fmt(subject.value)]
    /\ UNCHANGED <<code, subject, ret>>

PathNext == FieldOf \/ ItemOf \/ PathToString

PathSpec == PathInit /\ [][PathNext]_vars

\* the segments of a path, from the one under Root to the last
RECURSIVE Segments(_)
Segments(path) == IF path.seg = "Root" THEN <<>> ELSE Append(Segments(path.parent), path)

\* the text of the first k segments as the specification describes it: the
\* root is omitted, a field is joined to a non-root parent with ".", an item
\* is appended as "[index]" with no separator
RECURSIVE RenderedPrefix(_, _)
RenderedPrefix(segs, k) ==
    IF k = 0 THEN <<>>
    ELSE IF segs[k].seg = "Field"
    THEN RenderedPrefix(segs, k - 1) \o (IF k = 1 THEN <<>> ELSE <<".">>) \o segs[k].name
    ELSE RenderedPrefix(segs, k - 1) \o <<"[">> \o to_string(segs[k].index) \o <<"]">>

\* C11: rendering a path built from Root by Field and Item omits the root,
\* joins a field to a non-root parent with "." and appends an item as
\* "[index]"; Field{Root,"a"} is "a", Field{Field{Root,"a"},"b"} is "a.b",
\* Item{Root,2} is "[2]" and Item{Field{Root,"a"},0} is "a[0]".
C11_PathRendering ==
    /\ call.op = "to_string" =>
            call.text = RenderedPrefix(Segments(subject.value), PathDepth(subject.value))
    /\ ValidationPath_fmt(Field(Root, <<"a">>)) = <<"a">>
    /\ ValidationPath_fmt(Field(Field(Root, <<"a">>), <<"b">>)) = <<"a", ".", "b">>
    /\ ValidationPath_fmt(Item(Root, 2)) = <<"[", "2", "]">>
    /\ ValidationPath_fmt(Item(Field(Root, <<"a">>), 0)) = <<"a", "[", "0", "]">>

C11_Witness ==
    /\ call.op = "to_string"
    /\ subject.value = Field(Item(Field(Root, <<"a">>), 10), <<"b">>)
    /\ call.text = <<"a", "[", "1", "0", "]", ".", "b">>

(* -------------------------- concurrent passes ------------------------- *)
(* Several threads, each running validate_with on its own value.  The      *)
(* macro was expanded at compile time, so `code` is fixed; subject, call    *)
(* and ret hold one entry per thread.  A pass advances one top-level step   *)
(* at a time (one generated field block, one Vec item), and the threads'    *)
(* steps interleave freely.                                                 *)

Threads == 1..NumThreads

\* what a thread validates: a value, its type and the validator handed to
\* validate_with (the type's default, or a library validator shared by
\* reference)
ConcSubjects ==
    {[ty |-> TyNamed("Enum"), value |-> [variant |-> <<"D">>, f |-> <<3, 0>>],
      validator |-> DefaultValidator(TyNamed("Enum"))],
     [ty |-> TyNamed("IntegerFields"), value |-> <<-2, 1, 3>>,
      validator |-> DefaultValidator(TyNamed("IntegerFields"))],
     [ty |-> TyNamed("StringFields"), value |-> <<<<>>, <<"z">>>>,
      validator |-> DefaultValidator(TyNamed("StringFields"))],
     [ty |-> TyNamed("Divisors"), value |-> <<-128, 0>>,
      validator |-> DefaultValidator(TyNamed("Divisors"))],
     [ty |-> TyNamed("Divisors"), value |-> <<0, 0>>,
      validator |-> DefaultValidator(TyNamed("Divisors"))],
     [ty |-> TyNamed("UnnamedOption"), value |-> <<[k |-> "none"]>>,
      validator |-> DefaultValidator(TyNamed("UnnamedOption"))],
     [ty |-> TyVec(TyOption(TyNamed("UnnamedOption"))),
      value |-> <<[k |-> "some", v |-> <<[k |-> "some", v |-> 0]>>],
                  [k |-> "some", v |-> <<[k |-> "some", v |-> 2]>>]>>,
      validator |-> DefaultValidator(TyVec(TyOption(TyNamed("UnnamedOption"))))],
     [ty |-> TyU8, value |-> 2, validator |-> [kind |-> "Minimum", minimum |-> 3]]}

\* the top-level steps of validator V on value v at Root, in order: the field
\* blocks of a generated validate, the items of a Vec, else the one call
WorkItems(V, v) ==
    CASE V.kind = "Derived" ->
            LET checks == code[V.name].checks
                fields == IF checks.data = "Struct" THEN checks.fields
                          ELSE match_arm(checks.arms, v).fields
                values == IF checks.data = "Struct" THEN v ELSE v.f
            IN  [i \in 1..Len(fields) |-> [kind |-> "field", fc |-> fields[i], values |-> values]]
      [] V.kind = "Vec" ->
            [i \in 1..Len(v) |->
                [kind |-> "validator", validator |-> V.inner, path |-> Item(Root, i - 1),
                 value |-> v[i]]]
      [] OTHER -> <<[kind |-> "validator", validator |-> V, path |-> Root, value |-> v]>>

run_item(item, out) ==
    IF item.kind = "field" THEN run_field(item.fc, Root, item.values, out)
    ELSE Validator_validate(item.validator, item.path, item.value, out)

\* mutant: the passes push to one list, that of the first thread's pass
errors_of_shared(calls, t) ==
    IF "out" \in DOMAIN calls[1] THEN calls[1].out ELSE calls[t].out

\* the accumulator of the pass on thread t: the local `errors` of its own
\* validate_with frame
errors_of(calls, t) == calls[t].out

ConcInit ==
    /\ code = [n \in DeclNames |-> derive_validatable(Decl(n))]
    /\ subject \in [Threads -> ConcSubjects]
    /\ ret = [t \in Threads |-> NoRet]
    /\ call = [t \in Threads |-> NoCall]

\* validate_with is entered: `let mut errors = Vec::new()`
Begin(t) ==
    /\ call[t] = NoCall
    /\ call' = [call EXCEPT ![t] = [op |-> "validate_with", next |-> 1, out |-> NoErrors]]
    /\ UNCHANGED <<code, subject, ret>>

\* the pass of thread t runs its next step
Step(t) ==
    /\ call[t].op = "validate_with"
    /\ ~call[t].out.panicked
    /\ call[t].next <= Len(WorkItems(subject[t].validator, subject[t].value))
    /\ call' = [call EXCEPT ![t] =
            [op |-> "validate_with", next |-> call[t].next + 1,
             out |-> run_item(WorkItems(subject[t].validator, subject[t].value)[call[t].next],
                              errors_of(call, t))]]
    /\ UNCHANGED <<code, subject, ret>>

\* validate_with returns (or the panic leaves it)
End(t) ==
    /\ call[t].op = "validate_with"
    /\ \/ call[t].out.panicked
       \/ call[t].next > Len(WorkItems(subject[t].validator, subject[t].value))
    /\ ret' = [ret EXCEPT ![t] =
            IF call[t].out.panicked THEN Panic
            ELSE IF call[t].out.errors = <<>> THEN Ok ELSE Err(call[t].out.errors)]
    /\ call' = [call EXCEPT ![t] = [op |-> "returned"]]
    /\ UNCHANGED <<code, subject>>

ConcNext == \E t \in Threads : Begin(t) \/ Step(t) \/ End(t)

ConcSpec == ConcInit /\ [][ConcNext]_vars

IsPrefix(a, b) == Len(a) <= Len(b) /\ SubSeq(b, 1, Len(a)) = a

\* the pass of thread t run alone, in one piece
Alone(t) == Validator_validate(subject[t].validator, Root, subject[t].value, NoErrors)

\* C21: passes interleaved on several threads do not interfere: at every
\* moment the list of a running pass holds only errors of its own value, in
\* the order the pass run alone produces them, and each pass returns exactly
\* what validate_with returns for its value when run alone.
C21_PassesDoNotInterfere ==
    \A t \in Threads :
        /\ call[t].op = "validate_with" => IsPrefix(call[t].out.errors, Alone(t).errors)
        /\ (call[t].op = "validate_with" /\ call[t].out.panicked) => Alone(t).panicked
        /\ ret[t] # NoRet => ret[t] = validate_with(subject[t].value, subject[t].validator)

C21_Witness ==
    /\ call[1].op = "validate_with"
    /\ call[2].op = "validate_with"
    /\ subject[1].ty # subject[2].ty
    /\ call[1].next = 2
    /\ call[2].next = 2
    /\ Len(call[1].out.errors) = 2
    /\ Len(call[2].out.errors) = 1
    /\ call[1].next <= Len(WorkItems(subject[1].validator, subject[1].value))
    /\ call[2].next <= Len(WorkItems(subject[2].validator, subject[2].value))

====
